---------------------------- MODULE Spec2Model ----------------------------
(***************************************************************************)
(* A model of assert_fs's src/fs.rs: ChildPath construction (child), the       *)
(* single-file primitives (touch, write_binary, write_str) and the         *)
(* pattern-filtered tree copy (copy_from).                                 *)
(*                                                                         *)
(* A path is a sequence of names, a name is a sequence of characters, so   *)
(* that glob matching is computed character by character.  A filesystem is *)
(* a function from the paths that exist to their nodes.  The source tree   *)
(* of a copy is held apart from the destination filesystem (the two trees  *)
(* are disjoint: the destination is a temporary directory).                *)
(***************************************************************************)
EXTENDS Naturals, Sequences, FiniteSets, TLC

VARIABLES
    fs,          \* the destination filesystem: path -> node
    fs0,         \* the filesystem as it was before the first operation
    src,         \* the source tree: relative path -> entry
    srcExists,   \* whether the source root exists
    privileged,  \* whether the process bypasses permission bits (root)
    dest,        \* copy_from's target
    patterns,    \* copy_from's patterns
    pc,          \* position in copy_from: idle, loop, copy, done
    walker,      \* entries the traversal has still to yield
    cur,         \* the entry whose file copy is pending (pc = "copy")
    processed,   \* entries the loop body of this call has completed
    failed,      \* where this call failed, NoEntry if it has not
    written,     \* every path created or written by copy_from so far
    results,     \* the results of the copy_from calls made so far
    snap,        \* the filesystem when the first call returned
    childPath,   \* the ChildPath constructed last, NoChild before
    last,        \* the last file primitive applied and its outcome
    ops          \* the number of file primitives applied

vars == <<fs, fs0, src, srcExists, privileged, dest, patterns, pc, walker, cur,
          processed, failed, written, results, snap, childPath, last, ops>>

copyVars == <<src, srcExists, dest, patterns, pc, walker, cur, processed,
              failed, written, results, snap>>

---------------------------------------------------------------------------
(* Bounds *)

\* copy_from invocations in one behaviour.
MaxCalls == 2
\* Code points in a text handed to write_str.
MaxText == 2
\* File primitives applied in one behaviour.
MaxOps == 1

---------------------------------------------------------------------------
(* Paths *)

Nm(s) == <<s>>
N_t  == Nm("t")
N_c  == Nm("c")
N_e  == Nm("e")
N_d  == Nm("d")
N_x  == Nm("x")
N_at == <<"a", ".", "t">>
N_bm == <<"b", ".", "m">>
N_ft == <<"f", ".", "t">>

Root == << >>

IsPrefix(p, q) == Len(p) <= Len(q) /\ SubSeq(q, 1, Len(p)) = p

Prefixes(p) == {SubSeq(p, 1, n) : n \in 0..Len(p)}

Parent(p) == SubSeq(p, 1, Len(p) - 1)

\* Path::join: an absolute argument replaces the receiver.  Relative paths
\* are tagged "rel", absolute ones "abs".
JoinDropsRoot(root, p) == p.segs
Join(root, p) == IF p.abs THEN p.segs ELSE root \o p.segs

Rel(segs) == [abs |-> FALSE, segs |-> segs]

---------------------------------------------------------------------------
(* Filesystem nodes *)

Dir == [kind |-> "dir", data |-> << >>, ro |-> FALSE]
File(data, ro) == [kind |-> "file", data |-> data, ro |-> ro]
Other == [kind |-> "other", data |-> << >>, ro |-> FALSE]
WalkErr == [kind |-> "err", data |-> << >>, ro |-> FALSE]

FnOf(S) == [p \in {e[1] : e \in S} |-> (CHOOSE e \in S : e[1] = p)[2]]

Exists(f, p) == p \in DOMAIN f
IsDir(f, p) == Exists(f, p) /\ f[p].kind = "dir"
IsFile(f, p) == Exists(f, p) /\ f[p].kind = "file"

Put(f, p, node) == [q \in (DOMAIN f) \cup {p} |-> IF q = p THEN node ELSE f[q]]

---------------------------------------------------------------------------
(* Platform file operations used by fs.rs *)

\* fs::create_dir_all(p) fails when a component of p exists and is not a
\* directory; otherwise every missing component becomes a directory and the
\* existing ones are left alone.
CanCreateDirAll(f, p) == \A q \in Prefixes(p) : Exists(f, q) => IsDir(f, q)

CreateDirAll(f, p) ==
    [q \in (DOMAIN f) \cup Prefixes(p) |-> IF q \in DOMAIN f THEN f[q] ELSE Dir]

\* File::create(p): the parent must be a directory, p must not be a
\* directory, and an existing read-only file cannot be opened for writing
\* by an unprivileged process.  The file is created or truncated.
CanCreateFile(f, p, priv) ==
    /\ p # Root
    /\ IsDir(f, Parent(p))
    /\ ~IsDir(f, p)
    /\ (IsFile(f, p) => (~f[p].ro \/ priv))

\* fs::copy(from, to): opens `to` like File::create, writes the bytes of
\* `from` and gives `to` the permission bits of `from`.
CopyFileEmpty(f, node, to) == Put(f, to, File(<< >>, node.ro))
CopyFile(f, node, to) == Put(f, to, File(node.data, node.ro))

---------------------------------------------------------------------------
(* Glob patterns: a pattern is a sequence of segments, a segment a sequence
   of characters in which "*" stands for any run of characters and "?" for
   any one; the segment "**" stands for any run of path segments. *)

Star == "*"
DoubleStar == <<"*", "*">>

RECURSIVE MatchSeg(_, _)
MatchSeg(p, s) ==
    IF p = << >> THEN s = << >>
    ELSE IF Head(p) = Star
         THEN MatchSeg(Tail(p), s) \/ (s # << >> /\ MatchSeg(p, Tail(s)))
         ELSE /\ s # << >>
              /\ (Head(p) = "?" \/ Head(p) = Head(s))
              /\ MatchSeg(Tail(p), Tail(s))

RECURSIVE MatchPath(_, _)
MatchPath(pat, path) ==
    IF pat = << >> THEN path = << >>
    ELSE IF Head(pat) = DoubleStar
         THEN MatchPath(Tail(pat), path)
              \/ (path # << >> /\ MatchPath(pat, Tail(path)))
         ELSE /\ path # << >>
              /\ MatchSeg(Head(pat), Head(path))
              /\ MatchPath(Tail(pat), Tail(path))

\* A segment with an unclosed character class does not compile.
ValidPattern(pat) ==
    \A i \in 1..Len(pat) : \A j \in 1..Len(pat[i]) : pat[i][j] # "["

\* Patterns are tried in order; the first that matches includes the entry.
RECURSIVE MatchesAny(_, _)
MatchesAny(pats, path) ==
    /\ pats # << >>
    /\ (MatchPath(Head(pats), path) \/ MatchesAny(Tail(pats), path))

\* The entry at relative path r of the source; the root itself is an error
\* when the source root does not exist.
Entry(s, exists, r) ==
    IF r = Root THEN (IF exists THEN Dir ELSE WalkErr) ELSE s[r]

\* What the walker yields: the error of a missing root, the error of every
\* entry that cannot be read, and every entry below the root that matches.
Yielded(s, exists, pats) ==
    IF ~exists THEN {Root}
    ELSE {r \in DOMAIN s : s[r].kind = "err" \/ MatchesAny(pats, r)}

---------------------------------------------------------------------------
(* Errors *)

NoEntry == <<Nm("-")>>

IoError(what) == [kind |-> "IoError", what |-> what]
Chain(cause) == [kind |-> "FixtureError", cause |-> cause]
Ok == [kind |-> "Ok"]

NoChild == [type |-> "none"]
NoOp == [op |-> "none"]

---------------------------------------------------------------------------
(* copy_from *)

\* target.join(entry.path().strip_prefix(source))
target_path_unrebased(d, r) == r
target_path(d, r) == d \o r

\* entry.file_type(): the directory branch, the file branch, or neither.
BranchOfNotDir(e) == IF e.kind = "dir" THEN "dir" ELSE "file"
BranchOf(e) ==
    IF e.kind = "dir" THEN "dir" ELSE IF e.kind = "file" THEN "file" ELSE "skip"

\* The directory branch: create_dir_all(target_path).
DirBranchNothing(f, target) == f
DirBranch(f, target) == CreateDirAll(f, target)

\* The file branch, first statement: create_dir_all(target_path.parent()).
FileDirsNothing(f, target) == f
FileDirs(f, target) == CreateDirAll(f, Parent(target))

\* `?` on a traversal error and on an I/O error: return from copy_from.
OnWalkErrorContinue == "loop"
OnWalkError == "done"
OnIoErrorContinue == "loop"
OnIoError == "done"

FirstReturn == Len(results) = 0

\* copy_from returns: the result is recorded.
Return(res, f) ==
    /\ results' = Append(results, res)
    /\ snap' = IF FirstReturn THEN f ELSE snap

\* An error leaves through `?`: the call returns it chained.
Raise(r, what, next, f) ==
    /\ failed' = r
    /\ pc' = next
    /\ IF next = "done"
       THEN Return(Chain(IoError(what)), f)
       ELSE UNCHANGED <<results, snap>>

\* GlobWalker::from_patterns(source, patterns)?.follow_links(true)
copy_from_begin ==
    /\ pc \in {"idle", "done"}
    /\ Len(results) < MaxCalls
    /\ processed' = {}
    /\ cur' = NoEntry
    /\ UNCHANGED <<fs, fs0, src, srcExists, privileged, dest, patterns,
                   written, childPath, last, ops>>
    /\ IF \A i \in 1..Len(patterns) : ValidPattern(patterns[i])
       THEN /\ walker' = Yielded(src, srcExists, patterns)
            /\ pc' = "loop"
            /\ failed' = NoEntry
            /\ UNCHANGED <<results, snap>>
       ELSE /\ walker' = {}
            /\ failed' = Root
            /\ pc' = "done"
            /\ Return(Chain([kind |-> "GlobError", what |-> "pattern"]), fs)

\* One iteration of the loop, up to the file copy.
copy_from_entry ==
    /\ pc = "loop"
    /\ \E r \in walker :
         LET e == Entry(src, srcExists, r)
             target == target_path(dest, r)
         IN  /\ walker' = walker \ {r}
             /\ IF e.kind = "err"
                THEN /\ Raise(r, "walk", OnWalkError, fs)
                     /\ UNCHANGED <<fs, written, processed, cur>>
                ELSE IF BranchOf(e) = "dir"
                THEN IF CanCreateDirAll(fs, target)
                     THEN /\ fs' = DirBranch(fs, target)
                          /\ written' = written \cup ((DOMAIN fs') \ (DOMAIN fs))
                          /\ processed' = processed \cup {r}
                          /\ UNCHANGED <<pc, cur, failed, results, snap>>
                     ELSE /\ Raise(r, "create_dir_all", OnIoError, fs)
                          /\ UNCHANGED <<fs, written, processed, cur>>
                ELSE IF BranchOf(e) = "file"
                THEN IF CanCreateDirAll(fs, Parent(target))
                     THEN /\ fs' = FileDirs(fs, target)
                          /\ written' = written \cup ((DOMAIN fs') \ (DOMAIN fs))
                          /\ cur' = r
                          /\ pc' = "copy"
                          /\ UNCHANGED <<processed, failed, results, snap>>
                     ELSE /\ Raise(r, "create_dir_all", OnIoError, fs)
                          /\ UNCHANGED <<fs, written, processed, cur>>
                ELSE /\ processed' = processed \cup {r}
                     /\ UNCHANGED <<fs, written, pc, cur, failed, results, snap>>
    /\ UNCHANGED <<fs0, src, srcExists, privileged, dest, patterns, childPath,
                   last, ops>>

\* fs::copy(entry.path(), target_path)
copy_from_copy ==
    /\ pc = "copy"
    /\ LET e == Entry(src, srcExists, cur)
           target == target_path(dest, cur)
       IN  IF CanCreateFile(fs, target, privileged)
           THEN /\ fs' = CopyFile(fs, e, target)
                /\ written' = written \cup {target}
                /\ processed' = processed \cup {cur}
                /\ pc' = "loop"
                /\ UNCHANGED <<failed, results, snap>>
           ELSE /\ Raise(cur, "copy", OnIoError, fs)
                /\ UNCHANGED <<fs, written, processed>>
    /\ cur' = NoEntry
    /\ UNCHANGED <<fs0, src, srcExists, privileged, dest, patterns, walker,
                   childPath, last, ops>>

\* The walker is exhausted: Ok(())
copy_from_ok ==
    /\ pc = "loop"
    /\ walker = {}
    /\ pc' = "done"
    /\ Return(Ok, fs)
    /\ UNCHANGED <<fs, fs0, src, srcExists, privileged, dest, patterns, walker,
                   cur, processed, failed, written, childPath, last, ops>>

---------------------------------------------------------------------------
(* The states copy_from is started in *)

DataA == <<1>>
DataB == <<2, 3>>
DataOld == <<9, 8, 7, 6>>

\* Source trees: a.t (writable or read-only), b.m, f.t (a special file, or
\* an entry the walker cannot read), d (empty, or holding d/a.t).
SrcA == { {}, {<< <<N_at>>, File(DataA, FALSE) >>},
              {<< <<N_at>>, File(DataA, TRUE) >>} }
SrcB == { {}, {<< <<N_bm>>, File(DataB, FALSE) >>} }
SrcF == { {}, {<< <<N_ft>>, Other >>}, {<< <<N_ft>>, WalkErr >>} }
SrcD == { {}, {<< <<N_d>>, Dir >>},
              {<< <<N_d>>, Dir >>, << <<N_d, N_at>>, File(DataB, FALSE) >>} }

SourceTrees == {FnOf(a \cup b \cup f \cup d) :
                    a \in SrcA, b \in SrcB, f \in SrcF, d \in SrcD}

Pat_t   == << <<"*", ".", "t">> >>
Pat_m   == << <<"*", ".", "m">> >>
Pat_dt  == << N_d, <<"*", ".", "t">> >>
Pat_d   == << N_d >>
Pat_all == << DoubleStar >>
Pat_bad == << <<"[">> >>

PatternSets == { <<Pat_t, Pat_m>>, <<Pat_m, Pat_t>>, <<Pat_dt>>, <<Pat_all>>,
                 <<Pat_dt, Pat_m>>, <<Pat_d>>, <<Pat_bad>>, << >> }

TempRoot == <<N_t>>
DeepChild == <<N_t, N_c, N_e>>

BaseFs == {<<Root, Dir>>, <<TempRoot, Dir>>}

\* Destinations with the filesystem they are found in: the temporary
\* directory holding nothing, conflicting entries or older files, and a
\* ChildPath two levels down that exists, does not, or cannot.
Destinations ==
    { <<TempRoot, FnOf(BaseFs \cup c)>> :
        c \in { {},
                {<< <<N_t, N_d>>, File(DataOld, FALSE) >>},
                {<< <<N_t, N_at>>, Dir >>},
                {<< <<N_t, N_at>>, File(DataOld, FALSE) >>,
                 << <<N_t, N_x>>, File(DataOld, FALSE) >>},
                {<< <<N_t, N_at>>, File(DataOld, TRUE) >>} } }
    \cup
    { <<DeepChild, FnOf(BaseFs \cup c)>> :
        c \in { {},
                {<< <<N_t, N_c>>, Dir >>, << DeepChild, Dir >>},
                {<< <<N_t, N_c>>, File(DataOld, FALSE) >>} } }

HasReadOnly(f) == \E q \in DOMAIN f : f[q].ro

InitCopy ==
    /\ \E dst \in Destinations :
         /\ dest = dst[1]
         /\ fs = dst[2]
         /\ fs0 = dst[2]
         /\ snap = dst[2]
    /\ \/ srcExists = TRUE /\ src \in SourceTrees
       \/ srcExists = FALSE /\ src = FnOf({})
    /\ patterns \in PatternSets
    /\ privileged \in (IF HasReadOnly(src) \/ HasReadOnly(fs)
                       THEN BOOLEAN ELSE {FALSE})
    /\ pc = "idle"
    /\ walker = {}
    /\ cur = NoEntry
    /\ processed = {}
    /\ failed = NoEntry
    /\ written = {}
    /\ results = << >>
    /\ childPath = NoChild
    /\ last = NoOp
    /\ ops = 0

Init == InitCopy

Next == copy_from_begin \/ copy_from_entry \/ copy_from_copy \/ copy_from_ok

Spec == Init /\ [][Next]_vars

---------------------------------------------------------------------------
(* child, touch, write_binary, write_str *)

\* The types TempDirChildExt is implemented for.
ChildRoots == {"TempDir"}

TempDir == [type |-> "TempDir", path |-> TempRoot]

\* The addressable directories a caller holds.
Handles == {TempDir} \cup (IF childPath = NoChild THEN {} ELSE {childPath})

\* str::as_bytes: the UTF-8 encoding of the text's code points.
Utf8(cp) ==
    IF cp < 128 THEN <<cp>>
    ELSE IF cp < 2048 THEN <<192 + (cp \div 64), 128 + (cp % 64)>>
    ELSE <<224 + (cp \div 4096), 128 + ((cp \div 64) % 64), 128 + (cp % 64)>>

RECURSIVE AsBytes(_)
AsBytes(t) == IF t = << >> THEN << >> ELSE Utf8(Head(t)) \o AsBytes(Tail(t))

\* ChildPath::new(self.path().join(path)), as TempDirChildExt::child builds it.
ChildPath_new(root, p) == [type |-> "ChildPath", root |-> root.path, arg |-> p,
                     path |-> Join(root.path, p)]

\* File::create then write_all stopping after k bytes (k = Len(data) when
\* it completes): the file is truncated, keeps its permission bits if it
\* existed, and holds the first k bytes.
WrittenNoTruncate(f, p, data, k) ==
    Put(f, p, File(SubSeq(data, 1, k)
                     \o (IF IsFile(f, p) /\ Len(f[p].data) > k
                         THEN SubSeq(f[p].data, k + 1, Len(f[p].data))
                         ELSE << >>),
                   IsFile(f, p) /\ f[p].ro))
Written(f, p, data, k) ==
    Put(f, p, File(SubSeq(data, 1, k), IsFile(f, p) /\ f[p].ro))

\* write_binary(path, data), recorded as operation `op` with argument `arg`.
write_binary_to(op, arg, p, data) ==
    IF ~CanCreateFile(fs, p, privileged)
    THEN /\ last' = [op |-> op, path |-> p, arg |-> arg, res |-> IoError("create")]
         /\ fs' = fs
    ELSE \E k \in 0..Len(data) :
           /\ fs' = Written(fs, p, data, k)
           /\ last' = [op |-> op, path |-> p, arg |-> arg,
                       res |-> IF k = Len(data) THEN Ok ELSE IoError("write_all")]

CodePoints == {65, 233, 8364}

RECURSIVE SeqsUpTo(_, _)
SeqsUpTo(S, n) ==
    IF n = 0 THEN {<< >>}
    ELSE LET shorter == SeqsUpTo(S, n - 1)
         IN  shorter \cup {Append(t, x) : t \in shorter, x \in S}

Texts == SeqsUpTo(CodePoints, MaxText)
Blobs == {<< >>, <<0, 255>>}

ChildArgs == {Rel(<<N_x>>), Rel(<<N_c, N_e>>), Rel(<<N_d>>),
              [abs |-> TRUE, segs |-> <<N_x>>]}

child ==
    /\ \E root \in Handles, p \in ChildArgs :
         /\ root.type \in ChildRoots
         /\ childPath' = ChildPath_new(root, p)
    /\ UNCHANGED <<fs, fs0, privileged, last, ops>>
    /\ UNCHANGED copyVars

touch ==
    /\ childPath # NoChild
    /\ ops < MaxOps
    /\ ops' = ops + 1
    /\ IF CanCreateFile(fs, childPath.path, privileged)
       THEN /\ fs' = Written(fs, childPath.path, << >>, 0)
            /\ last' = [op |-> "touch", path |-> childPath.path, arg |-> << >>,
                        res |-> Ok]
       ELSE /\ fs' = fs
            /\ last' = [op |-> "touch", path |-> childPath.path, arg |-> << >>,
                        res |-> IoError("create")]
    /\ UNCHANGED <<fs0, privileged, childPath>>
    /\ UNCHANGED copyVars

write_binary ==
    /\ childPath # NoChild
    /\ ops < MaxOps
    /\ ops' = ops + 1
    /\ \E data \in Blobs : write_binary_to("write_binary", data, childPath.path, data)
    /\ UNCHANGED <<fs0, privileged, childPath>>
    /\ UNCHANGED copyVars

write_str ==
    /\ childPath # NoChild
    /\ ops < MaxOps
    /\ ops' = ops + 1
    /\ \E t \in Texts : write_binary_to("write_str", t, childPath.path, AsBytes(t))
    /\ UNCHANGED <<fs0, privileged, childPath>>
    /\ UNCHANGED copyVars

\* The temporary directory as the file primitives find it: empty; holding a
\* file x, a directory c and a directory d; the same with x read-only.
PathFilesystems ==
    { FnOf(BaseFs \cup c) :
        c \in { {},
                {<< <<N_t, N_x>>, File(DataOld, FALSE) >>,
                 << <<N_t, N_c>>, Dir >>, << <<N_t, N_d>>, Dir >>},
                {<< <<N_t, N_x>>, File(DataOld, TRUE) >>,
                 << <<N_t, N_d>>, Dir >>} } }

InitPath ==
    /\ fs \in PathFilesystems
    /\ fs0 = fs
    /\ snap = fs
    /\ privileged \in (IF HasReadOnly(fs) THEN BOOLEAN ELSE {FALSE})
    /\ childPath = NoChild
    /\ last = NoOp
    /\ ops = 0
    /\ dest = TempRoot
    /\ srcExists = FALSE
    /\ src = FnOf({})
    /\ patterns = << >>
    /\ pc = "idle"
    /\ walker = {}
    /\ cur = NoEntry
    /\ processed = {}
    /\ failed = NoEntry
    /\ written = {}
    /\ results = << >>

NextPath == child \/ touch \/ write_binary \/ write_str

PathSpec == InitPath /\ [][NextPath]_vars

---------------------------------------------------------------------------
(* Properties *)

Returned == pc = "done" /\ results # << >>
LastResult == results[Len(results)]
ReturnedOk == Returned /\ LastResult = Ok
ReturnedErr == Returned /\ LastResult.kind = "FixtureError"

\* Pattern matching stated over the patterns as a set.
Matches(r) == \E i \in 1..Len(patterns) : MatchPath(patterns[i], r)

\* The file and directory entries of the source that match.
Matched == {r \in DOMAIN src : src[r].kind \in {"file", "dir"} /\ Matches(r)}

Under(d) == {p \in DOMAIN fs : IsPrefix(d, p) /\ p # d}
EmptyBefore == \A p \in DOMAIN fs0 : ~(IsPrefix(dest, p) /\ p # dest)

\* C1: when copy_from returns Ok, every matching file or directory entry of
\* the source exists at dest joined with its relative path, with the same
\* type and, for a file, the same bytes.
C1_CopyPreservesStructure ==
    ReturnedOk =>
        \A r \in Matched :
            /\ Exists(fs, dest \o r)
            /\ fs[dest \o r].kind = src[r].kind
            /\ (src[r].kind = "file" => fs[dest \o r].data = src[r].data)

\* A successful copy that replaced an older file of other content and
\* created a matching directory.
C1_Witness ==
    /\ ReturnedOk
    /\ \E r \in Matched : /\ IsFile(fs0, dest \o r)
                          /\ fs0[dest \o r].data # src[r].data
    /\ \E r \in Matched : src[r].kind = "dir"

\* C2 (as claimed): after a successful copy into an empty destination, a
\* file or directory entry of the source is present in the destination if
\* and only if it matches at least one pattern.
C2_OnlyMatchedEntriesPresent ==
    (ReturnedOk /\ Len(results) = 1 /\ EmptyBefore) =>
        \A r \in DOMAIN src :
            src[r].kind \in {"file", "dir"} =>
                (Exists(fs, dest \o r) <=> Matches(r))

\* C2 (amended): after a successful copy into an empty destination, the
\* destination holds exactly the matching file and directory entries and
\* the directories above them; the loop copied exactly the matching file and
\* directory entries; the patterns count as a set, whatever their order.
C2_PatternOr ==
    (ReturnedOk /\ Len(results) = 1 /\ EmptyBefore) =>
        /\ Under(dest) =
              UNION {{dest \o SubSeq(r, 1, n) : n \in 1..Len(r)} : r \in Matched}
        /\ \A r \in DOMAIN src :
              src[r].kind \in {"file", "dir"} => (r \in processed <=> r \in Matched)

\* Two patterns, an entry only the second one matches, an entry neither
\* matches, and a directory present only as the ancestor of a copied file.
C2_Witness ==
    /\ ReturnedOk /\ Len(results) = 1 /\ EmptyBefore
    /\ Len(patterns) = 2
    /\ \E r \in Matched : ~MatchPath(patterns[1], r)
    /\ \E r \in DOMAIN src : ~Matches(r) /\ ~Exists(fs, dest \o r)
    /\ \E r \in DOMAIN src : ~Matches(r) /\ Exists(fs, dest \o r)

\* C3 (as claimed): every path copy_from creates or writes has dest as an
\* ancestor or is dest.
C3_EveryWrittenPathUnderDest == \A p \in written : IsPrefix(dest, p)

\* C3 (amended): every path copy_from creates or writes is dest or lies
\* under dest, or is a directory above dest that was missing and that
\* create_dir_all created on the way to a target; every file written lies
\* under dest.
C3_NoEscape ==
    \A p \in written :
        \/ IsPrefix(dest, p)
        \/ (IsPrefix(p, dest) /\ ~Exists(fs0, p) /\ IsDir(fs, p))

\* A copy that wrote a file two levels under dest and created a missing
\* directory above dest.
C3_Witness ==
    /\ ReturnedOk
    /\ \E p \in written : IsFile(fs, p) /\ IsPrefix(dest, p) /\ Len(p) = Len(dest) + 2
    /\ \E p \in written : IsPrefix(p, dest) /\ p # dest

\* C4: when copy_from has succeeded and is called again with the same
\* arguments over the same source, the second call succeeds too and leaves
\* the destination as the first call left it.
C4_Idempotent ==
    (Len(results) >= 2 /\ results[1] = Ok) =>
        (results[2] = Ok /\ (pc = "done" /\ Len(results) = 2 => fs = snap))

\* C5: over a source root that does not exist, copy_from returns a
\* FixtureError and the filesystem stays as it was.
C5_FailurePropagation ==
    ~srcExists =>
        /\ fs = fs0
        /\ written = {}
        /\ \A i \in 1..Len(results) : results[i].kind = "FixtureError"
        /\ (pc = "done" => results # << >>)

\* The traversal of a missing source root has failed, under patterns that
\* compile, into a destination that does not exist yet.
C5_Witness ==
    /\ ~srcExists
    /\ ReturnedErr
    /\ LastResult.cause = IoError("walk")
    /\ ~Exists(fs, dest)

\* C6: the first failure ends the call with that error chained as a
\* FixtureError: nothing is processed after it, what was processed before it
\* is still in the destination, and Ok is returned only when every yielded
\* entry was processed.
C6_FirstErrorAborts ==
    /\ (failed # NoEntry => ReturnedErr /\ failed \notin processed)
    /\ (ReturnedErr =>
          /\ failed # NoEntry
          /\ walker \cap processed = {}
          /\ \A r \in processed :
                src[r].kind \in {"file", "dir"} =>
                    /\ Exists(fs, dest \o r)
                    /\ fs[dest \o r].kind = src[r].kind
                    /\ fs[dest \o r].data = src[r].data)
    /\ (ReturnedOk =>
          /\ failed = NoEntry
          /\ walker = {}
          /\ processed = Yielded(src, srcExists, patterns))

\* A call failed copying a file after it had copied another one and before
\* it reached a third entry.
C6_Witness ==
    /\ ReturnedErr
    /\ LastResult.cause = IoError("copy")
    /\ \E r \in processed : src[r].kind = "file"
    /\ walker # {}

\* C9: when a file is about to be copied the parent directory of its target
\* exists, in whatever order the entries are visited; a copy that fails
\* fails on the target itself (a directory, or a read-only file).
C9_ParentBeforeCopy ==
    /\ (pc = "copy" => IsDir(fs, Parent(dest \o cur)))
    /\ ((ReturnedErr /\ LastResult.cause = IoError("copy")) =>
          /\ IsDir(fs, Parent(dest \o failed))
          /\ \/ IsDir(fs, dest \o failed)
             \/ (IsFile(fs, dest \o failed) /\ fs[dest \o failed].ro /\ ~privileged))

\* A nested file is about to be copied although the directory above it has
\* not been processed and was not in the destination before.
C9_Witness ==
    /\ pc = "copy"
    /\ Len(cur) = 2
    /\ Parent(cur) \notin processed
    /\ ~Exists(fs0, dest \o Parent(cur))

SpecialEntries == {r \in DOMAIN src : src[r].kind = "other"}

\* C10: a matching entry that is neither a directory nor a regular file is
\* passed over: nothing is written at its target, it is never where the call
\* fails, and once the walker yielded it it counts as done.
C10_SpecialEntriesSkipped ==
    \A r \in SpecialEntries :
        /\ dest \o r \notin written
        /\ (Exists(fs, dest \o r) =>
               Exists(fs0, dest \o r) /\ fs[dest \o r] = fs0[dest \o r])
        /\ failed # r
        /\ (ReturnedOk /\ Matches(r) => r \in processed)

\* A call returned Ok having passed over a special entry and copied a file.
C10_Witness ==
    /\ ReturnedOk
    /\ \E r \in SpecialEntries : r \in processed
    /\ \E r \in processed : src[r].kind = "file" /\ IsFile(fs, dest \o r)

\* The code points a UTF-8 byte sequence stands for.
RECURSIVE Utf8Decode(_)
Utf8Decode(b) ==
    IF b = << >> THEN << >>
    ELSE IF b[1] < 128 THEN <<b[1]>> \o Utf8Decode(SubSeq(b, 2, Len(b)))
    ELSE IF b[1] < 224
         THEN <<(b[1] - 192) * 64 + (b[2] - 128)>> \o Utf8Decode(SubSeq(b, 3, Len(b)))
         ELSE <<(b[1] - 224) * 4096 + (b[2] - 128) * 64 + (b[3] - 128)>>
                  \o Utf8Decode(SubSeq(b, 4, Len(b)))

Utf8Width(cp) == IF cp < 128 THEN 1 ELSE IF cp < 2048 THEN 2 ELSE 3

RECURSIVE ByteLength(_)
ByteLength(t) == IF t = << >> THEN 0 ELSE Utf8Width(Head(t)) + ByteLength(Tail(t))

\* C7: after write_str(T) returned Ok the file holds the UTF-8 bytes of T and
\* nothing else, whatever it held before; and the first write_str of a
\* behaviour leaves what write_binary leaves for those bytes: the complete
\* bytes on Ok, the untouched filesystem or a truncated file holding part of
\* them on an error.
C7_WriteRoundTrip ==
    last.op = "write_str" =>
        /\ last.res = Ok =>
              /\ IsFile(fs, last.path)
              /\ Len(fs[last.path].data) = ByteLength(last.arg)
              /\ Utf8Decode(fs[last.path].data) = last.arg
              /\ IsDir(fs, Parent(last.path))
        /\ ops = 1 =>
              \/ last.res = Ok
                   /\ fs = Put(fs0, last.path,
                               File(AsBytes(last.arg),
                                    IsFile(fs0, last.path) /\ fs0[last.path].ro))
              \/ last.res = IoError("create") /\ fs = fs0
              \/ /\ last.res = IoError("write_all")
                 /\ \E k \in 0..(ByteLength(last.arg) - 1) :
                       fs = Put(fs0, last.path,
                                File(SubSeq(AsBytes(last.arg), 1, k),
                                     IsFile(fs0, last.path) /\ fs0[last.path].ro))

\* write_str of the empty text succeeded on a file that held older bytes.
C7_Witness ==
    /\ last.op = "write_str"
    /\ last.res = Ok
    /\ last.arg = << >>
    /\ IsFile(fs0, last.path)
    /\ fs0[last.path].data # << >>

=============================================================================
